---- MODULE Spec2Model ----
(***************************************************************************)
(* Model of src/performance.py: CAGR, annualVolatility, sharpeRatio and    *)
(* maxDrawdown over a pandas Series of float returns.                      *)
(*                                                                         *)
(* Numbers are binary floating-point values with round-to-nearest-even,    *)
(* as numpy.float64 is, but with a mantissa of Prec bits instead of 53 and *)
(* an unbounded exponent (the bounded inputs never reach the exponent      *)
(* range of a double, so overflow and underflow are not modelled).  The    *)
(* IEEE special values NaN and +-Infinity are values of the model; the two *)
(* signed zeros are one value.  A Python exception is the field exc of a   *)
(* call's result.                                                          *)
(***************************************************************************)
EXTENDS Integers, Sequences, FiniteSets, TLC

\* Mantissa width of the modelled floating-point format (53 in a double).
Prec == 5

\* Longest return series the model draws.
MaxLen == 3

----------------------------------------------------------------------------
(* Floating-point values: [k, m, e] is m * 2^e when k = "fin" (m odd, or   *)
(* m = 0 and e = 0), NaN when k = "nan", m * Infinity when k = "inf".      *)

Abs(n) == IF n < 0 THEN -n ELSE n

Sgn(n) == IF n < 0 THEN -1 ELSE IF n = 0 THEN 0 ELSE 1

Min(a, b) == IF a < b THEN a ELSE b

RECURSIVE BitLen(_)
BitLen(n) == IF n = 0 THEN 0 ELSE 1 + BitLen(n \div 2)

RECURSIVE Gcd(_, _)
Gcd(a, b) == IF b = 0 THEN a ELSE Gcd(b, a % b)

NaN == [k |-> "nan", m |-> 0, e |-> 0]

Inf(s) == [k |-> "inf", m |-> s, e |-> 0]

RECURSIVE Fin(_, _)
Fin(m, e) ==
    IF m = 0 THEN [k |-> "fin", m |-> 0, e |-> 0]
    ELSE IF m % 2 = 0 THEN Fin(m \div 2, e + 1)
    ELSE [k |-> "fin", m |-> m, e |-> e]

Zero == Fin(0, 0)

One == Fin(1, 0)

IsNaN(a) == a.k = "nan"

IsInf(a) == a.k = "inf"

IsFin(a) == a.k = "fin"

\* Round s * n * 2^e (plus, when sticky, a nonzero amount below the last bit
\* of n) to Prec bits, ties to even.  A sticky n carries at least one bit
\* more than Prec.
Round(s, n, e, sticky) ==
    LET bits == BitLen(n)
    IN  IF bits <= Prec THEN Fin(s * n, e)
        ELSE LET shift == bits - Prec
                 q     == n \div (2 ^ shift)
                 rem   == n % (2 ^ shift)
                 half  == 2 ^ (shift - 1)
                 up    == \/ rem > half
                          \/ rem = half /\ (sticky \/ q % 2 = 1)
             IN  Fin(s * (IF up THEN q + 1 ELSE q), e + shift)

FNeg(a) == [a EXCEPT !.m = -a.m]

FAdd(a, b) ==
    IF IsNaN(a) \/ IsNaN(b) THEN NaN
    ELSE IF IsInf(a) /\ IsInf(b) THEN (IF a.m = b.m THEN a ELSE NaN)
    ELSE IF IsInf(a) THEN a
    ELSE IF IsInf(b) THEN b
    ELSE LET e == Min(a.e, b.e)
             n == a.m * (2 ^ (a.e - e)) + b.m * (2 ^ (b.e - e))
         IN  Round(Sgn(n), Abs(n), e, FALSE)

FSub(a, b) == FAdd(a, FNeg(b))

FMul(a, b) ==
    IF IsNaN(a) \/ IsNaN(b) THEN NaN
    ELSE IF IsInf(a) \/ IsInf(b)
         THEN (IF a.m = 0 \/ b.m = 0 THEN NaN ELSE Inf(Sgn(a.m) * Sgn(b.m)))
    ELSE Round(Sgn(a.m) * Sgn(b.m), Abs(a.m * b.m), a.e + b.e, FALSE)

FDiv(a, b) ==
    IF IsNaN(a) \/ IsNaN(b) THEN NaN
    ELSE IF IsInf(a) THEN (IF IsInf(b) THEN NaN
                           ELSE Inf(a.m * (IF b.m < 0 THEN -1 ELSE 1)))
    ELSE IF IsInf(b) THEN Zero
    ELSE IF b.m = 0 THEN (IF a.m = 0 THEN NaN ELSE Inf(Sgn(a.m)))
    ELSE IF a.m = 0 THEN Zero
    ELSE LET sh  == 2 * Prec + 2
             num == Abs(a.m) * (2 ^ sh)
             den == Abs(b.m)
         IN  Round(Sgn(a.m) * Sgn(b.m), num \div den, a.e - b.e - sh,
                   num % den # 0)

\* Comparisons, false whenever an operand is NaN.
FLt(a, b) ==
    IF IsNaN(a) \/ IsNaN(b) THEN FALSE
    ELSE IF IsInf(a) \/ IsInf(b)
         THEN (IF IsInf(a) /\ IsInf(b) THEN a.m < b.m
               ELSE IF IsInf(a) THEN a.m < 0 ELSE b.m > 0)
    ELSE LET e == Min(a.e, b.e)
         IN  a.m * (2 ^ (a.e - e)) < b.m * (2 ^ (b.e - e))

FGt(a, b) == FLt(b, a)

FEq(a, b) == ~IsNaN(a) /\ ~IsNaN(b) /\ a = b

FLe(a, b) == FLt(a, b) \/ FEq(a, b)

\* The largest x with x^b <= n, built bit by bit from bit i downwards.
RECURSIVE IRootFrom(_, _, _, _)
IRootFrom(n, b, x, i) ==
    IF i < 0 THEN x
    ELSE IF (x + 2 ^ i) ^ b <= n THEN IRootFrom(n, b, x + 2 ^ i, i - 1)
    ELSE IRootFrom(n, b, x, i - 1)

IRoot(n, b) == IRootFrom(n, b, 0, (BitLen(n) - 1) \div b)

\* The float nearest to (m * 2^e)^(a/b) for m > 0 and a/b > 0 in lowest terms.
PowPos(m, e, a, b) ==
    LET ma   == m ^ a
        E    == e * a
        need == IF b = 1 THEN 0
                ELSE IF b * Prec > BitLen(ma) - 1
                     THEN b * Prec - (BitLen(ma) - 1) ELSE 0
        \* the largest multiple of b that is <= E - need
        Eb   == ((E - need) \div b) * b
        N    == ma * (2 ^ (E - Eb))
        T    == IRoot(N, b)
    IN  Round(1, T, Eb \div b, T ^ b # N)

FromInt(n) == Round(Sgn(n), Abs(n), 0, FALSE)

\* The float nearest to the rational n / d.
FromRat(n, d) == FDiv(Fin(n, 0), Fin(d, 0))

FSqrt(a) ==
    IF IsNaN(a) THEN NaN
    ELSE IF IsInf(a) THEN (IF a.m > 0 THEN a ELSE NaN)
    ELSE IF a.m < 0 THEN NaN
    ELSE IF a.m = 0 THEN Zero
    ELSE PowPos(a.m, a.e, 1, 2)

----------------------------------------------------------------------------
(* pandas / numpy operations used by the program.                          *)

\* Series.add(c): elementwise sum.
add(s, c) == [i \in 1..Len(s) |-> FAdd(s[i], c)]

\* Series.product(): the product in index order, 1.0 for an empty series.
RECURSIVE product(_)
product(s) ==
    IF Len(s) = 0 THEN One
    ELSE FMul(product(SubSeq(s, 1, Len(s) - 1)), s[Len(s)])

\* Mutant of cumprod: each value is 1 + r_i alone, the product is not carried.
cumprod_NoCarry(s) == s

\* Series.cumprod(): the running products.
RECURSIVE cumprod(_)
cumprod(s) ==
    IF Len(s) = 0 THEN <<>>
    ELSE IF Len(s) = 1 THEN s
    ELSE LET h == cumprod(SubSeq(s, 1, Len(s) - 1))
         IN  Append(h, FMul(h[Len(h)], s[Len(s)]))

\* Mutant of cummax: the peak stays at the first value.
cummax_First(s) == [i \in 1..Len(s) |-> s[1]]

\* Series.cummax(): the running maxima (of values that are never NaN here).
RECURSIVE cummax(_)
cummax(s) ==
    IF Len(s) = 0 THEN <<>>
    ELSE IF Len(s) = 1 THEN s
    ELSE LET h == cummax(SubSeq(s, 1, Len(s) - 1))
         IN  Append(h, IF FGt(s[Len(s)], h[Len(h)]) THEN s[Len(s)]
                       ELSE h[Len(h)])

\* Mutant of SeriesMax: the last value instead of the largest.
SeriesMax_Last(s) == IF Len(s) = 0 THEN NaN ELSE s[Len(s)]

\* Series.max(): the largest value that is not NaN, NaN when there is none.
SeriesMax(s) ==
    LET idx == {i \in 1..Len(s) : ~IsNaN(s[i])}
    IN  IF idx = {} THEN NaN
        ELSE s[CHOOSE i \in idx : \A j \in idx : FLe(s[j], s[i])]

\* The sum in index order, 0.0 for an empty series.
RECURSIVE SeriesSum(_)
SeriesSum(s) ==
    IF Len(s) = 0 THEN Zero
    ELSE FAdd(SeriesSum(SubSeq(s, 1, Len(s) - 1)), s[Len(s)])

\* Series.std(): sample standard deviation (ddof = 1), NaN for fewer than two
\* values.  pandas computes it in two passes: avg = sum / count, then
\* sqrt(sum((avg - values) ** 2) / (count - 1)), every step rounded.
std(s) ==
    IF Len(s) < 2 THEN NaN
    ELSE LET count == FromInt(Len(s))
             d     == FromInt(Len(s) - 1)
             avg   == FDiv(SeriesSum(s), count)
             sqr   == [i \in 1..Len(s) |->
                          FMul(FSub(avg, s[i]), FSub(avg, s[i]))]
         IN  FSqrt(FDiv(SeriesSum(sqr), d))

\* base ** (p / n) for a float base and the quotient of two positive ints:
\* the float nearest to the real power.  The exponent is taken as the exact
\* quotient (Python rounds p / n to a float first); a negative base has a
\* real power only for an integral exponent, otherwise the result is NaN.
FPow(base, p, n) ==
    LET g == Gcd(p, n)
        a == p \div g
        b == n \div g
    IN  IF IsNaN(base) THEN NaN
        ELSE IF IsInf(base)
             THEN (IF base.m < 0 /\ b = 1 /\ a % 2 = 1 THEN Inf(-1) ELSE Inf(1))
        ELSE IF base.m = 0 THEN Zero
        ELSE IF base.m > 0 THEN PowPos(base.m, base.e, a, b)
        ELSE IF b = 1
             THEN LET r == PowPos(-base.m, base.e, a, 1)
                  IN  IF a % 2 = 1 THEN FNeg(r) ELSE r
        ELSE NaN

----------------------------------------------------------------------------
(* The functions of performance.py.  A call's outcome is [exc, ret]: the   *)
(* exception raised ("none" when the call returns) and the returned tuple. *)

Return(v) == [exc |-> "none", ret |-> v]

Raise(name) == [exc |-> name, ret |-> <<>>]

\* Mutant of CAGR: the exponent is len(returns) / periods.
CAGR_InvertedExponent(returns, periods) ==
    LET growth == product(add(returns, One))
    IN  IF Len(returns) = 0 THEN Raise("ZeroDivisionError")
        ELSE Return(<<FSub(FPow(growth, Len(returns), periods), One)>>)

\* periods / len(returns) divides two Python ints and raises on a zero length.
CAGR(returns, periods) ==
    LET growth == product(add(returns, One))
    IN  IF Len(returns) = 0 THEN Raise("ZeroDivisionError")
        ELSE Return(<<FSub(FPow(growth, periods, Len(returns)), One)>>)

annualVolatility(returns, periods) ==
    Return(<<FMul(std(returns), FSqrt(FromInt(periods)))>>)

\* The quotient is a numpy.float64 division: a zero volatility gives
\* +-Infinity or NaN.  An exception of CAGR propagates.
sharpeRatio(returns, periods, rfr) ==
    LET c == CAGR(returns, periods)
        v == annualVolatility(returns, periods)
    IN  IF c.exc # "none" THEN c
        ELSE Return(<<FDiv(FSub(c.ret[1], rfr), v.ret[1])>>)

\* The locals of maxDrawdown.
valueOf(returns) == cumprod(add(returns, One))

\* Mutant of ddSeriesOf: the quotient is peak / value.
ddSeriesOf_Inverted(returns) ==
    LET value == valueOf(returns)
        peak  == cummax(value)
    IN  [i \in 1..Len(value) |-> FSub(One, FDiv(peak[i], value[i]))]

ddSeriesOf(returns) ==
    LET value == valueOf(returns)
        peak  == cummax(value)
    IN  [i \in 1..Len(value) |-> FSub(One, FDiv(value[i], peak[i]))]

\* Mutant of durReduce: the running count is never reset.
durReduce_NoReset(res, curr) ==
    LET currDrawdownDur == res[1] + 1
    IN  <<currDrawdownDur,
          IF currDrawdownDur > res[2] THEN currDrawdownDur ELSE res[2]>>

\* Mutant of durReduce: the maximum is taken before the count is advanced.
durReduce_LateMax(res, curr) ==
    LET currDrawdownDur == IF FEq(curr, Zero) THEN 0 ELSE res[1] + 1
    IN  <<currDrawdownDur, IF res[1] > res[2] THEN res[1] ELSE res[2]>>

durReduce(res, curr) ==
    LET currDrawdownDur == IF FEq(curr, Zero) THEN 0 ELSE res[1] + 1
    IN  <<currDrawdownDur,
          IF currDrawdownDur > res[2] THEN currDrawdownDur ELSE res[2]>>

\* functools.reduce(durReduce, s, init): the left fold of durReduce over s.
RECURSIVE reduce(_, _)
reduce(s, init) ==
    IF Len(s) = 0 THEN init
    ELSE durReduce(reduce(SubSeq(s, 1, Len(s) - 1), init), s[Len(s)])

\* Mutant of maxDrawdown: the proportion counts the periods with dd >= 0.
maxDrawdown_GeCount(returns) ==
    LET dds          == ddSeriesOf(returns)
        dd           == SeriesMax(dds)
        inDrawdown   == {i \in 1..Len(dds) : FLe(Zero, dds[i])}
        dur          == reduce(dds, <<0, 0>>)
    IN  IF Len(dds) = 0 THEN Raise("ZeroDivisionError")
        ELSE Return(<<dd,
                      FDiv(FromInt(Cardinality(inDrawdown)), FromInt(Len(dds))),
                      dur[2]>>)

\* len(...) / len(ddSeries) divides two Python ints and raises on a zero
\* length, after ddSeries.max() has returned NaN.
maxDrawdown(returns) ==
    LET dds          == ddSeriesOf(returns)
        dd           == SeriesMax(dds)
        inDrawdown   == {i \in 1..Len(dds) : FGt(dds[i], Zero)}
        dur          == reduce(dds, <<0, 0>>)
    IN  IF Len(dds) = 0 THEN Raise("ZeroDivisionError")
        ELSE Return(<<dd,
                      FDiv(FromInt(Cardinality(inDrawdown)), FromInt(Len(dds))),
                      dur[2]>>)

----------------------------------------------------------------------------
(* Inputs and the state machine: one call of one function on one input.    *)

\* Returns the model draws, as (numerator, denominator) of the literal.
RetLits == {<<-2, 1>>, <<-1, 1>>, <<-15, 16>>, <<-9, 10>>, <<-1, 5>>,
            <<0, 1>>, <<1, 10>>, <<1, 4>>, <<1, 1>>}

RetVals == {FromRat(q[1], q[2]) : q \in RetLits}

\* The series [0.10, -0.20, 0.05].
ExampleSeries == <<FromRat(1, 10), FromRat(-1, 5), FromRat(1, 20)>>

AllSeries ==
    UNION {[1..n -> RetVals] : n \in 0..MaxLen} \cup {ExampleSeries}

PeriodsSet == {1, 2, 3}

RfrVals == {Zero, FromRat(1, 4)}

VARIABLES returns, periods, rfr, fn, exc, ret, value, ddSeries

vars == <<returns, periods, rfr, fn, exc, ret, value, ddSeries>>

Init ==
    /\ returns \in AllSeries
    /\ periods \in PeriodsSet
    /\ rfr \in RfrVals
    /\ fn = "idle"
    /\ exc = "none"
    /\ ret = <<>>
    /\ value = <<>>
    /\ ddSeries = <<>>

Finish(name, out) ==
    /\ fn' = name
    /\ exc' = out.exc
    /\ ret' = out.ret
    /\ UNCHANGED <<returns, periods, rfr>>

CallCAGR ==
    /\ fn = "idle"
    /\ Finish("CAGR", CAGR(returns, periods))
    /\ UNCHANGED <<value, ddSeries>>

CallAnnualVolatility ==
    /\ fn = "idle"
    /\ Finish("annualVolatility", annualVolatility(returns, periods))
    /\ UNCHANGED <<value, ddSeries>>

CallSharpeRatio ==
    /\ fn = "idle"
    /\ Finish("sharpeRatio", sharpeRatio(returns, periods, rfr))
    /\ UNCHANGED <<value, ddSeries>>

CallMaxDrawdown ==
    /\ fn = "idle"
    /\ Finish("maxDrawdown", maxDrawdown(returns))
    /\ value' = valueOf(returns)
    /\ ddSeries' = ddSeriesOf(returns)

Next ==
    \/ CallCAGR
    \/ CallAnnualVolatility
    \/ CallSharpeRatio
    \/ CallMaxDrawdown

Spec == Init /\ [][Next]_vars

----------------------------------------------------------------------------
(* Quantities the properties are stated in.                                *)

MinusOne == FNeg(One)

MaxNat(S) == CHOOSE x \in S : \A y \in S : y <= x

\* value_i: the product of (1 + r_j) for j <= i.
RECURSIVE ClaimValue(_, _)
ClaimValue(r, i) ==
    IF i = 1 THEN FAdd(r[1], One)
    ELSE FMul(ClaimValue(r, i - 1), FAdd(r[i], One))

\* peak_i: the maximum of value_1 .. value_i.
ClaimPeak(r, i) ==
    LET vs == {ClaimValue(r, j) : j \in 1..i}
    IN  CHOOSE v \in vs : \A w \in vs : FLe(w, v)

\* dd_i = 1 - value_i / peak_i.
ClaimDd(r, i) == FSub(One, FDiv(ClaimValue(r, i), ClaimPeak(r, i)))

ClaimDdSeries(r) == [i \in 1..Len(r) |-> ClaimDd(r, i)]

\* The largest of the values of s that are numbers, NaN when none is.
ClaimMax(s) ==
    LET nums == {s[i] : i \in {j \in 1..Len(s) : ~IsNaN(s[j])}}
    IN  IF nums = {} THEN NaN
        ELSE CHOOSE v \in nums : \A w \in nums : ~FLt(v, w)

\* c_i: 0 if dd_i == 0, c_(i-1) + 1 otherwise, with c_0 = 0.
RECURSIVE RunCount(_, _)
RunCount(dds, i) ==
    IF i = 0 THEN 0
    ELSE IF FEq(dds[i], Zero) THEN 0
    ELSE RunCount(dds, i - 1) + 1

\* The length of the longest run of consecutive indices with dd_i > 0.
LongestRun(dds) ==
    MaxNat({0} \cup {b - a + 1 : <<a, b>> \in
        {w \in (1..Len(dds)) \X (1..Len(dds)) :
            /\ w[1] <= w[2]
            /\ \A i \in w[1]..w[2] : FGt(dds[i], Zero)}})

\* x is within 4 * 2^-Prec, relatively, of the positive rational n / d.
ApproxRat(x, n, d) ==
    /\ IsFin(x)
    /\ LET s == IF x.e < 0 THEN 2 ^ (-x.e) ELSE 1
           t == IF x.e > 0 THEN 2 ^ x.e ELSE 1
       IN  Abs(x.m * t * d - n * s) * (2 ^ Prec) <= 4 * n * s

IsConstant(s) == \A i, j \in 1..Len(s) : s[i] = s[j]

AllAbove(s, bound) == \A i \in 1..Len(s) : FGt(s[i], bound)

\* x multiplied n times into 1.0, each product rounded.
RECURSIVE IterPow(_, _)
IterPow(x, n) == IF n = 0 THEN One ELSE FMul(IterPow(x, n - 1), x)

\* c + 1 is within (p + 2) * 2^-Prec * max(1, x^p) of the real x^p, x > 0.
NearPowMinusOne(c, x, p) ==
    /\ IsFin(c)
    /\ LET e0 == Min(Min(c.e, 0), x.e * p)
           C  == c.m * (2 ^ (c.e - e0)) + 2 ^ (-e0)
           T  == (x.m ^ p) * (2 ^ (x.e * p - e0))
           U  == 2 ^ (-e0)
       IN  Abs(C - T) * (2 ^ Prec) <= (p + 2) * (IF T > U THEN T ELSE U)

CalledMaxDrawdown == fn = "maxDrawdown" /\ Len(returns) >= 1

----------------------------------------------------------------------------
(* Properties.                                                             *)

\* C1: for a series of length n >= 1 the duration returned by maxDrawdown is
\* the maximum of the running count c_i (0 when dd_i == 0, otherwise
\* c_(i-1) + 1, from 0); [0.10, -0.20, 0.05] has counts 0, 1, 2, duration 2.
C1_DurationIsMaxRunningCount ==
    CalledMaxDrawdown =>
        LET dds == ClaimDdSeries(returns)
        IN  /\ exc = "none"
            /\ ret[3] = MaxNat({RunCount(dds, i) : i \in 1..Len(dds)})
            /\ returns = ExampleSeries =>
                   /\ [i \in 1..3 |-> RunCount(dds, i)] = <<0, 1, 2>>
                   /\ ret[3] = 2

C1_Witness ==
    /\ CalledMaxDrawdown
    /\ returns = ExampleSeries
    /\ exc = "none"
    /\ ret[3] = 2

\* C2: for a series of length n >= 1 maxDrawdown returns the maximum of the
\* dd_i first and (number of i with dd_i > 0) / n second; [0.10, -0.20, 0.05]
\* gives about 0.2 and 2/3.
C2_MaxAndProportion ==
    CalledMaxDrawdown =>
        LET dds == ClaimDdSeries(returns)
            cnt == Cardinality({i \in 1..Len(dds) : FGt(dds[i], Zero)})
        IN  /\ exc = "none"
            /\ ret[1] = ClaimMax(dds)
            /\ ret[2] = FDiv(FromInt(cnt), FromInt(Len(returns)))
            /\ returns = ExampleSeries =>
                   /\ ApproxRat(ret[1], 1, 5)
                   /\ cnt = 2
                   /\ ret[2] = FromRat(2, 3)

C2_Witness ==
    /\ CalledMaxDrawdown
    /\ returns = ExampleSeries
    /\ exc = "none"
    /\ ApproxRat(ret[1], 1, 5)
    /\ ret[2] = FromRat(2, 3)

\* The drawdowns computed by maxDrawdown are all >= 0, and 0 wherever the
\* value is the running peak.
DrawdownsNonNegative ==
    \A i \in 1..Len(returns) :
        /\ FLe(Zero, ddSeries[i])
        /\ ClaimValue(returns, i) = ClaimPeak(returns, i)
               => FEq(ddSeries[i], Zero)

\* C3 as stated: for every non-empty series every dd_i is >= 0, and dd_i = 0
\* wherever value_i = peak_i.
C3_Original == CalledMaxDrawdown => DrawdownsNonNegative

\* C3 amended: for every non-empty series whose first return is > -1.0 (so
\* that the running peak is positive) every dd_i is >= 0, and dd_i = 0
\* wherever value_i = peak_i.
C3_DrawdownNonNegative ==
    (CalledMaxDrawdown /\ FGt(returns[1], MinusOne)) => DrawdownsNonNegative

C3_Witness ==
    /\ CalledMaxDrawdown
    /\ Len(returns) = 3
    /\ FGt(returns[1], MinusOne)
    /\ FLt(returns[3], MinusOne)
    /\ FGt(ClaimValue(returns, 2), ClaimValue(returns, 1))
    /\ FEq(ddSeries[2], Zero)
    /\ FGt(ddSeries[3], One)

\* C4: no operation raises; for an empty series CAGR and maxDrawdown return
\* NaN or Infinity instead of raising.
C4_NoOperationRaises ==
    /\ fn # "idle" => exc = "none"
    /\ (fn \in {"CAGR", "maxDrawdown"} /\ Len(returns) = 0)
           => exc = "none" /\ (IsNaN(ret[1]) \/ IsInf(ret[1]))

\* C5: for a constant series of n >= 2 equal nonzero returns, and for a
\* single-value series, annualVolatility is zero or NaN and sharpeRatio
\* returns Infinity or NaN without raising.
C5_ConstantSeriesSharpeIsSpecial ==
    (/\ Len(returns) >= 1
     /\ IsConstant(returns)
     /\ Len(returns) >= 2 => returns[1] # Zero)
    => /\ fn = "annualVolatility"
              => exc = "none" /\ (ret[1] = Zero \/ IsNaN(ret[1]))
       /\ fn = "sharpeRatio"
              => exc = "none" /\ (IsInf(ret[1]) \/ IsNaN(ret[1]))

CalledCAGRConstant ==
    fn = "CAGR" /\ Len(returns) >= 1 /\ IsConstant(returns)

C7_NonDecreasingHasNoDrawdown ==
    (CalledMaxDrawdown /\ \A i \in 1..Len(returns) : FLe(Zero, returns[i]))
    => exc = "none" /\ ret = <<Zero, Zero, 0>>

C7_Witness ==
    /\ CalledMaxDrawdown
    /\ Len(returns) = 3
    /\ \A i \in 1..3 : FLe(Zero, returns[i])
    /\ \E i \in 1..3 : FLt(Zero, returns[i])
    /\ \E i \in 1..3 : returns[i] = Zero
    /\ ret = <<Zero, Zero, 0>>

\* What follows a return of exactly -1.0 at index k, up to the maximum
\* drawdown: the value is 0 from k on, CAGR is -1.0, and after a positive
\* value every drawdown from k on is 1.
TotalLossZeroes(k) ==
    /\ fn = "CAGR" => exc = "none" /\ ret[1] = MinusOne
    /\ fn = "maxDrawdown" =>
           /\ \A j \in k..Len(returns) : value[j] = Zero
           /\ (\E i \in 1..(k - 1) : FGt(value[i], Zero))
                  => \A j \in k..Len(returns) : ddSeries[j] = One

\* C8 as stated: a return of exactly -1.0 at index k makes value_j = 0 for
\* j >= k, CAGR -1.0, and in maxDrawdown, when a positive value precedes k,
\* dd_j = 1 for j >= k and the maximum drawdown 1.0.
C8_Original ==
    \A k \in 1..Len(returns) :
        returns[k] = MinusOne =>
            /\ TotalLossZeroes(k)
            /\ (fn = "maxDrawdown" /\ \E i \in 1..(k - 1) : FGt(value[i], Zero))
                   => ret[1] = One

\* C8 amended: a return of exactly -1.0 at index k makes value_j = 0 for
\* j >= k, CAGR -1.0, and in maxDrawdown, when a positive value precedes k,
\* dd_j = 1 for j >= k and the maximum drawdown at least 1.0: exactly 1.0
\* when no return before k is below -1.0.
C8_TotalLossIsPermanent ==
    \A k \in 1..Len(returns) :
        returns[k] = MinusOne =>
            /\ TotalLossZeroes(k)
            /\ (fn = "maxDrawdown" /\ \E i \in 1..(k - 1) : FGt(value[i], Zero))
                   => /\ FLe(One, ret[1])
                      /\ (\A i \in 1..(k - 1) : FLe(MinusOne, returns[i]))
                             => ret[1] = One

C8_Witness ==
    /\ fn = "maxDrawdown"
    /\ Len(returns) = 3
    /\ FGt(returns[1], Zero)
    /\ returns[2] = MinusOne
    /\ FGt(returns[3], Zero)
    /\ value[3] = Zero
    /\ ddSeries[3] = One
    /\ ret[1] = One

\* C9: for a series of length n >= 1 whose returns are all > -1.0, the
\* duration returned by maxDrawdown is the length of the longest run of
\* consecutive indices with dd_i > 0.
C9_DurationIsLongestRun ==
    (CalledMaxDrawdown /\ AllAbove(returns, MinusOne))
    => exc = "none" /\ ret[3] = LongestRun(ddSeries)

C9_Witness ==
    /\ CalledMaxDrawdown
    /\ AllAbove(returns, MinusOne)
    /\ Len(returns) = 3
    /\ FGt(ddSeries[2], Zero)
    /\ FEq(ddSeries[3], Zero)
    /\ ret[3] = 1

\* The parts of C10 other than the upper bound of the drawdown.
TripleConsistent ==
    /\ exc = "none"
    /\ FEq(ddSeries[1], Zero)
    /\ FLe(Zero, ret[1])
    /\ \E c \in ret[3]..(Len(returns) - 1) :
           ret[2] = FDiv(FromInt(c), FromInt(Len(returns)))
    /\ FGt(ret[1], Zero) <=> FGt(ret[2], Zero)
    /\ FGt(ret[2], Zero) <=> ret[3] > 0

\* C10 as stated: for a series of length n >= 1 whose returns are all > -1.0,
\* dd_0 = 0, 0 <= dd < 1, duration <= n * proportion <= n - 1, and dd > 0 iff
\* proportion > 0 iff duration > 0.
C10_Original ==
    (CalledMaxDrawdown /\ AllAbove(returns, MinusOne))
    => TripleConsistent /\ FLt(ret[1], One)

\* C10 amended: for a series of length n >= 1 whose returns are all > -1.0,
\* dd_0 = 0, 0 <= dd <= 1 (a deep drawdown rounds to exactly 1.0),
\* duration <= n * proportion <= n - 1, and dd > 0 iff proportion > 0 iff
\* duration > 0.
C10_TripleConsistent ==
    (CalledMaxDrawdown /\ AllAbove(returns, MinusOne))
    => TripleConsistent /\ FLe(ret[1], One)

C10_Witness ==
    /\ CalledMaxDrawdown
    /\ AllAbove(returns, MinusOne)
    /\ exc = "none"
    /\ ret[1] = One
    /\ ret[3] = 2

====
